---------------------------- MODULE Spec2Model ----------------------------
(***************************************************************************)
(* A model of bezel-project-patcher: rom.go (name normalisation),          *)
(* patcher.go (matching, copying, report) and main.go.                     *)
(*                                                                         *)
(* A Go string is a sequence of one-character strings.  Indexes returned   *)
(* by Index are Go's (0-based, -1 when absent); s[:i] is SubSeq(s, 1, i)   *)
(* and s[i:] is SubSeq(s, i + 1, Len(s)).                                  *)
(***************************************************************************)
EXTENDS Integers, Sequences, FiniteSets, TLC

----------------------------------------------------------------------------
(* The strings package, as far as rom.go and patcher.go use it.            *)

UpperCase ==
    << "A","B","C","D","E","F","G","H","I","J","K","L","M",
       "N","O","P","Q","R","S","T","U","V","W","X","Y","Z" >>

LowerCase ==
    << "a","b","c","d","e","f","g","h","i","j","k","l","m",
       "n","o","p","q","r","s","t","u","v","w","x","y","z" >>

\* The characters of the modelled file names in byte order (sort.StringSlice
\* compares strings byte by byte).
ByteOrder ==
    << " ", "'", "(", ")", ",", "-", ".",
       "0","1","2","3","4","5","6","7","8","9", ">" >>
    \o UpperCase \o << "[", "]" >> \o LowerCase \o << ":" >>

\* The lower-case letter of every upper-case one.
toLowerTable ==
    [ c \in { UpperCase[i] : i \in 1..Len(UpperCase) } |->
        LowerCase[CHOOSE i \in 1..Len(UpperCase) : UpperCase[i] = c] ]

ToLowerChar(c) ==
    IF c \in DOMAIN toLowerTable THEN toLowerTable[c] ELSE c

\* strings.ToLower
ToLower(s) == [i \in 1..Len(s) |-> ToLowerChar(s[i])]

\* strings.HasPrefix
HasPrefix(s, prefix) ==
    /\ Len(prefix) <= Len(s)
    /\ SubSeq(s, 1, Len(prefix)) = prefix

\* strings.HasSuffix
HasSuffix(s, suffix) ==
    /\ Len(suffix) <= Len(s)
    /\ SubSeq(s, Len(s) - Len(suffix) + 1, Len(s)) = suffix

\* The 0-based positions at which substr occurs in s.
Occurrences(s, substr) ==
    { i \in 0..(Len(s) - Len(substr)) : SubSeq(s, i + 1, i + Len(substr)) = substr }

\* strings.Index: the first occurrence of substr in s, -1 if there is none.
Index(s, substr) ==
    LET occ == Occurrences(s, substr)
    IN  IF occ = {} THEN -1
        ELSE CHOOSE i \in occ : \A j \in occ : i <= j

\* strings.LastIndex
LastIndex(s, substr) ==
    LET occ == Occurrences(s, substr)
    IN  IF occ = {} THEN -1
        ELSE CHOOSE i \in occ : \A j \in occ : j <= i

\* strings.Contains
Contains(s, substr) == Index(s, substr) >= 0

\* strings.TrimSpace (the only white space of the modelled names is " ").
RECURSIVE TrimLeft(_)
TrimLeft(s) ==
    IF s # << >> /\ Head(s) = " " THEN TrimLeft(Tail(s)) ELSE s

RECURSIVE TrimRight(_)
TrimRight(s) ==
    IF s # << >> /\ s[Len(s)] = " "
    THEN TrimRight(SubSeq(s, 1, Len(s) - 1))
    ELSE s

TrimSpace(s) == TrimRight(TrimLeft(s))

\* strings.TrimSuffix
TrimSuffix(s, suffix) ==
    IF HasSuffix(s, suffix) THEN SubSeq(s, 1, Len(s) - Len(suffix)) ELSE s

\* strings.Split with a non-empty separator.
RECURSIVE Split(_, _)
Split(s, sep) ==
    LET i == Index(s, sep)
    IN  IF i < 0 THEN << s >>
        ELSE << SubSeq(s, 1, i) >> \o Split(SubSeq(s, i + Len(sep) + 1, Len(s)), sep)

\* strings.Join
RECURSIVE Join(_, _)
Join(parts, sep) ==
    IF parts = << >> THEN << >>
    ELSE IF Len(parts) = 1 THEN parts[1]
    ELSE parts[1] \o sep \o Join(Tail(parts), sep)

\* strings.ReplaceAll(s, old, "") for a one-character old.
RECURSIVE RemoveAll(_, _)
RemoveAll(s, c) ==
    IF s = << >> THEN << >>
    ELSE IF Head(s) = c THEN RemoveAll(Tail(s), c)
    ELSE << Head(s) >> \o RemoveAll(Tail(s), c)

\* filepath.Ext: the suffix beginning at the final dot of the name, empty if
\* there is no dot (a listed name holds no path separator).
Ext(path) ==
    LET i == LastIndex(path, << "." >>)
    IN  IF i < 0 THEN << >> ELSE SubSeq(path, i + 1, Len(path))

\* Byte-wise string comparison a < b.
RECURSIVE StringLess(_, _)
StringLess(a, b) ==
    LET Code(c) == CHOOSE i \in 1..Len(ByteOrder) : ByteOrder[i] = c
    IN  IF b = << >> THEN FALSE
        ELSE IF a = << >> THEN TRUE
        ELSE IF Head(a) = Head(b) THEN StringLess(Tail(a), Tail(b))
        ELSE Code(Head(a)) < Code(Head(b))

\* sortAlphabetical: sort.Sort(sort.StringSlice(s)).
sortAlphabetical(s) == SortSeq(s, StringLess)

----------------------------------------------------------------------------
(* rom.go                                                                  *)

CfgExt == << ".", "c", "f", "g" >>

\* containsItem
containsItem(haystack, needle) ==
    \E i \in 1..Len(haystack) : haystack[i] = needle

\* uniqueItems: the items in first-seen order.
RECURSIVE uniqueItemsFrom(_, _)
uniqueItemsFrom(uniqueSlice, slice) ==
    IF slice = << >> THEN uniqueSlice
    ELSE IF containsItem(uniqueSlice, Head(slice))
         THEN uniqueItemsFrom(uniqueSlice, Tail(slice))
         ELSE uniqueItemsFrom(Append(uniqueSlice, Head(slice)), Tail(slice))

\* A slip in uniqueItems: the slice is returned as it is.
uniqueItemsKeepAll(slice) == slice

uniqueItems(slice) == uniqueItemsFrom(<< >>, slice)

\* A slip in getBaseName's loop: the test is i >= 0, so that a name is cut
\* at position 0 too.
cutAtFromZero(fileName, substr) ==
    LET i == Index(fileName, substr)
    IN  IF i >= 0 THEN SubSeq(fileName, 1, i) ELSE fileName

\* One round of getBaseName's loop: cut at substr when it occurs past 0.
cutAt(fileName, substr) ==
    LET i == Index(fileName, substr)
    IN  IF i > 0 THEN SubSeq(fileName, 1, i) ELSE fileName

\* getBaseName: the three cuts are applied one after the other.
getBaseName(fileName) ==
    ToLower(TrimSpace(cutAt(cutAt(cutAt(fileName, << "." >>), << "[" >>), << "(" >>)))

ThePrefix == << "t", "h", "e", " " >>
CommaThe  == << ",", " ", "t", "h", "e" >>
Dash      == << " ", "-", " " >>

\* A slip in getAlternateNames: "the" is moved behind the name without the
\* comma.
correctedNameNoComma(name) ==
    IF HasPrefix(name, ThePrefix)
    THEN SubSeq(name, 5, Len(name)) \o << " ", "t", "h", "e" >>
    ELSE LET i == Index(name, CommaThe)
         IN  SubSeq(name, 1, i) \o SubSeq(name, i + 6, Len(name))

\* The "corrected" name of getAlternateNames, for a lowercase name that
\* starts with "the " or contains ", the".
correctedName(name) ==
    IF HasPrefix(name, ThePrefix)
    THEN LET nameParts == Split(SubSeq(name, 5, Len(name)), Dash)
         IN  Join([nameParts EXCEPT ![1] = @ \o CommaThe], Dash)
    ELSE LET i == Index(name, CommaThe)
         IN  ThePrefix \o SubSeq(name, 1, i) \o SubSeq(name, i + 6, Len(name))

\* A slip in getAlternateNames: the alternate names of the corrected name are
\* not merged in.
getAlternateNamesNoMerge(rawName, recursive) ==
    LET name == ToLower(rawName)
    IN  uniqueItems(<< name >>
            \o (IF HasPrefix(name, ThePrefix) \/ Contains(name, CommaThe)
                THEN << correctedName(name) >> ELSE << >>)
            \o (IF Index(name, << "'" >>) >= 0
                THEN << RemoveAll(name, "'") >> ELSE << >>))

RECURSIVE getAlternateNames(_, _)
getAlternateNames(rawName, recursive) ==
    LET name == ToLower(rawName)
        moved ==
            IF HasPrefix(name, ThePrefix) \/ Contains(name, CommaThe)
            THEN << correctedName(name) >>
                 \o (IF recursive
                     THEN getAlternateNames(correctedName(name), FALSE)
                     ELSE << >>)
            ELSE << >>
        stripped ==
            IF Index(name, << "'" >>) >= 0
            THEN << RemoveAll(name, "'") >>
            ELSE << >>
    IN  uniqueItems(<< name >> \o moved \o stripped)

\* NewRom
NewRom(fileName) ==
    [ FileName       |-> fileName,
      Name           |-> getBaseName(fileName),
      AlternateNames |-> getAlternateNames(getBaseName(fileName), TRUE) ]

\* Rom.ConfigName
ConfigName(r) == TrimSuffix(r.FileName, Ext(r.FileName)) \o CfgExt

----------------------------------------------------------------------------
(* The file names of the model's directories, and the fixed pieces of the  *)
(* report and of the log file's name.                                      *)

\* "New Tetris, The (USA).cfg"
CfgCommaThe ==
    << "N","e","w"," ","T","e","t","r","i","s",","," ","T","h","e"," ","(",
       "U","S","A",")",".","c","f","g" >>

\* "The New Tetris (U).cfg"
CfgTheU ==
    << "T","h","e"," ","N","e","w"," ","T","e","t","r","i","s"," ","(","U",
       ")",".","c","f","g" >>

\* "the new tetris (USA).cfg"
CfgLowerUSA ==
    << "t","h","e"," ","n","e","w"," ","t","e","t","r","i","s"," ","(","U",
       "S","A",")",".","c","f","g" >>

\* "Th'e New Tetris.cfg"
CfgApos ==
    << "T","h","'","e"," ","N","e","w"," ","T","e","t","r","i","s",".","c",
       "f","g" >>

\* "readme.txt"
NotCfg ==
    << "r","e","a","d","m","e",".","t","x","t" >>

\* "The New Tetris (USA).n64"
RomN64 ==
    << "T","h","e"," ","N","e","w"," ","T","e","t","r","i","s"," ","(","U",
       "S","A",")",".","n","6","4" >>

\* "The New Tetris (USA).z64"
RomZ64 ==
    << "T","h","e"," ","N","e","w"," ","T","e","t","r","i","s"," ","(","U",
       "S","A",")",".","z","6","4" >>

\* "Th'e New Tetris.n64"
RomApos ==
    << "T","h","'","e"," ","N","e","w"," ","T","e","t","r","i","s",".","n",
       "6","4" >>

\* "Indy.v64"
RomOther ==
    << "I","n","d","y",".","v","6","4" >>

\* "The New Tetris (USA).cfg"
TargetUSA ==
    << "T","h","e"," ","N","e","w"," ","T","e","t","r","i","s"," ","(","U",
       "S","A",")",".","c","f","g" >>

\* " -> "
Arrow ==
    << " ","-",">"," " >>

\* " copied from: "
CopiedFrom ==
    << " ","c","o","p","i","e","d"," ","f","r","o","m",":"," " >>

\* "patch-log."
LogPrefix ==
    << "p","a","t","c","h","-","l","o","g","." >>

\* ".log"
LogSuffix ==
    << ".","l","o","g" >>

----------------------------------------------------------------------------
(* patcher.go: the pure part.  A *Rom is its position in configFiles or in *)
(* romSet (the slices PatchDirectory builds); nil is 0.                    *)

MatchTypeExact     == "exact"
MatchTypeAlternate == "alternate"
MatchTypeFuzzy     == "fuzzy"
MatchTypeNone      == "none"

MatchTypes == { MatchTypeExact, MatchTypeAlternate, MatchTypeFuzzy, MatchTypeNone }

\* The values main passes as matchFlag.
MatchFlags == { MatchTypeExact, MatchTypeAlternate, MatchTypeFuzzy }

Nil == 0

\* A slip in shouldInclude: every match that is not a none match is included.
shouldIncludeAnyTier(matchType, matchFlag) == matchType # MatchTypeNone

\* shouldInclude
shouldInclude(matchType, matchFlag) ==
    IF matchType = MatchTypeNone THEN FALSE
    ELSE CASE matchFlag = MatchTypeExact     -> matchType = MatchTypeExact
           [] matchFlag = MatchTypeAlternate ->
                  matchType = MatchTypeExact \/ matchType = MatchTypeAlternate
           [] matchFlag = MatchTypeFuzzy     -> TRUE
           [] OTHER                          -> FALSE

\* A slip in the isExisting flag: the file names are compared as they are.
exactIsExistingCaseSensitive(configFile, rom) ==
    configFile.FileName = ConfigName(rom)

\* The isExisting flag of an exact match.
exactIsExisting(configFile, rom) ==
    ToLower(configFile.FileName) = ToLower(ConfigName(rom))

\* A slip in matchLoop: the alternate names are tried before the exact match.
matchPairAlternateFirst(configFile, rom, ci, ri) ==
    IF \E a \in 1..Len(rom.AlternateNames) :
            configFile.Name = rom.AlternateNames[a]
    THEN << [ configFile |-> ci, rom |-> ri, matchType |-> MatchTypeAlternate,
              isExisting |-> FALSE ] >>
    ELSE IF configFile.Name = rom.Name
    THEN << [ configFile |-> ci, rom |-> ri, matchType |-> MatchTypeExact,
              isExisting |-> exactIsExisting(configFile, rom) ] >>
    ELSE << >>

\* A slip in matchLoop: no "continue matchLoop" after a match, so that every
\* rule that applies to the pair appends its match.
matchPairNoContinue(configFile, rom, ci, ri) ==
    (IF configFile.Name = rom.Name
     THEN << [ configFile |-> ci, rom |-> ri, matchType |-> MatchTypeExact,
               isExisting |-> exactIsExisting(configFile, rom) ] >>
     ELSE << >>)
    \o (IF \E a \in 1..Len(rom.AlternateNames) :
              configFile.Name = rom.AlternateNames[a]
        THEN << [ configFile |-> ci, rom |-> ri,
                  matchType |-> MatchTypeAlternate, isExisting |-> FALSE ] >>
        ELSE << >>)
    \o (IF \E a \in 1..Len(rom.AlternateNames) :
              \E b \in 1..Len(configFile.AlternateNames) :
                configFile.AlternateNames[b] = rom.AlternateNames[a]
        THEN << [ configFile |-> ci, rom |-> ri,
                  matchType |-> MatchTypeFuzzy, isExisting |-> FALSE ] >>
        ELSE << >>)

\* The body of matchLoop for one config file and one ROM: the matches it
\* appends (none or one).  ci and ri are the two pointers.
matchPair(configFile, rom, ci, ri) ==
    IF configFile.Name = rom.Name
    THEN << [ configFile |-> ci, rom |-> ri, matchType |-> MatchTypeExact,
              isExisting |-> exactIsExisting(configFile, rom) ] >>
    ELSE IF \E a \in 1..Len(rom.AlternateNames) :
                configFile.Name = rom.AlternateNames[a]
    THEN << [ configFile |-> ci, rom |-> ri, matchType |-> MatchTypeAlternate,
              isExisting |-> FALSE ] >>
    ELSE IF \E a \in 1..Len(rom.AlternateNames) :
              \E b \in 1..Len(configFile.AlternateNames) :
                configFile.AlternateNames[b] = rom.AlternateNames[a]
    THEN << [ configFile |-> ci, rom |-> ri, matchType |-> MatchTypeFuzzy,
              isExisting |-> FALSE ] >>
    ELSE << >>

\* matchLoop for config file ci from ROM ri on: "continue matchLoop" goes on
\* with the next ROM of the same config file.
RECURSIVE matchLoop(_, _, _, _)
matchLoop(configFiles, romSet, ci, ri) ==
    IF ri > Len(romSet) THEN << >>
    ELSE matchPair(configFiles[ci], romSet[ri], ci, ri)
         \o matchLoop(configFiles, romSet, ci, ri + 1)

\* The outer loop of matchRomSets from config file ci on.
RECURSIVE configLoop(_, _, _)
configLoop(configFiles, romSet, ci) ==
    IF ci > Len(configFiles) THEN << >>
    ELSE matchLoop(configFiles, romSet, ci, 1)
         \o configLoop(configFiles, romSet, ci + 1)

\* A slip in romSetLoop: a none match is recorded for every ROM.
RECURSIVE romSetLoopEveryRom(_, _, _)
romSetLoopEveryRom(matches, romSet, ri) ==
    IF ri > Len(romSet) THEN matches
    ELSE romSetLoopEveryRom(Append(matches,
                                   [ configFile |-> Nil, rom |-> ri,
                                     matchType |-> MatchTypeNone,
                                     isExisting |-> FALSE ]),
                            romSet, ri + 1)

\* romSetLoop: a none match for every ROM no match holds.
RECURSIVE romSetLoop(_, _, _)
romSetLoop(matches, romSet, ri) ==
    IF ri > Len(romSet) THEN matches
    ELSE IF \E m \in 1..Len(matches) :
              matches[m].rom = ri /\ matches[m].matchType # MatchTypeNone
    THEN romSetLoop(matches, romSet, ri + 1)
    ELSE romSetLoop(Append(matches,
                           [ configFile |-> Nil, rom |-> ri,
                             matchType |-> MatchTypeNone, isExisting |-> FALSE ]),
                    romSet, ri + 1)

\* configSetLoop: a none match for every config file no match holds.
RECURSIVE configSetLoop(_, _, _)
configSetLoop(matches, configFiles, ci) ==
    IF ci > Len(configFiles) THEN matches
    ELSE IF \E m \in 1..Len(matches) :
              matches[m].configFile = ci /\ matches[m].matchType # MatchTypeNone
    THEN configSetLoop(matches, configFiles, ci + 1)
    ELSE configSetLoop(Append(matches,
                              [ configFile |-> ci, rom |-> Nil,
                                matchType |-> MatchTypeNone, isExisting |-> FALSE ]),
                       configFiles, ci + 1)

\* A slip in matchRomSets: the exact matches are put before the other ones.
matchRomSetsExactFirst(configFiles, romSet) ==
    LET found == configLoop(configFiles, romSet, 1)
        IsExact(m) == m.matchType = MatchTypeExact
        NotExact(m) == m.matchType # MatchTypeExact
    IN  configSetLoop(romSetLoop(SelectSeq(found, IsExact) \o SelectSeq(found, NotExact),
                                 romSet, 1),
                      configFiles, 1)

\* matchRomSets
matchRomSets(configFiles, romSet) ==
    configSetLoop(romSetLoop(configLoop(configFiles, romSet, 1), romSet, 1),
                  configFiles, 1)

\* The filter of PatchDirectory: the names that look like a config file.
RECURSIVE filterConfigFiles(_)
filterConfigFiles(files) ==
    IF files = << >> THEN << >>
    ELSE IF Ext(Head(files)) = CfgExt
         THEN << Head(files) >> \o filterConfigFiles(Tail(files))
         ELSE filterConfigFiles(Tail(files))

\* configFiles and roms of PatchDirectory: one Rom per listed name.
newRoms(files) == [i \in 1..Len(files) |-> NewRom(files[i])]

\* The line produceLog writes for a new file.
createdLine(configFile, rom) ==
    rom.FileName \o Arrow \o ConfigName(rom) \o CopiedFrom \o configFile.FileName

\* A slip in produceLog: a match marked existing is listed as well.
isListedThoughExisting(m, configFiles, romSet) ==
    /\ m.matchType # MatchTypeNone
    /\ ToLower(ConfigName(romSet[m.rom])) # ToLower(configFiles[m.configFile].FileName)

\* Whether produceLog lists match m among the new files.
isListed(m, configFiles, romSet) ==
    /\ m.matchType # MatchTypeNone
    /\ ~m.isExisting
    /\ ToLower(ConfigName(romSet[m.rom])) # ToLower(configFiles[m.configFile].FileName)

\* createdFiles[t] of produceLog, sorted as it is printed.
createdFiles(matches, configFiles, romSet, t) ==
    LET Keep(m) == m.matchType = t /\ isListed(m, configFiles, romSet)
        listed  == SelectSeq(matches, Keep)
    IN  sortAlphabetical([i \in 1..Len(listed) |->
            createdLine(configFiles[listed[i].configFile], romSet[listed[i].rom])])

\* skipped
skipped(matchType, matchFlag) ==
    IF ~shouldInclude(matchType, matchFlag) THEN "[SKIPPED]" ELSE ""

\* skippedFileCount of produceLog.
skippedFileCount(created, matchFlag) ==
    (IF ~shouldInclude(MatchTypeExact, matchFlag)
        THEN Len(created[MatchTypeExact]) ELSE 0)
    + (IF ~shouldInclude(MatchTypeAlternate, matchFlag)
        THEN Len(created[MatchTypeAlternate]) ELSE 0)
    + (IF ~shouldInclude(MatchTypeFuzzy, matchFlag)
        THEN Len(created[MatchTypeFuzzy]) ELSE 0)

\* The text produceLog assembles, as the values it is formatted from.  The
\* sections of the text are printed when their lists are not empty.
logText(commitFlag, romCount, configCount, configWithoutRoms, romsWithoutConfig, created, skippedCount, matchFlag) ==
    [ dry               |-> ~commitFlag,
      configCount       |-> configCount,
      romCount          |-> romCount,
      missingRoms       |-> Len(configWithoutRoms),
      missingConfig     |-> Len(romsWithoutConfig),
      createdFilesCount |-> Len(created[MatchTypeExact])
                            + Len(created[MatchTypeAlternate])
                            + Len(created[MatchTypeFuzzy]) - skippedCount,
      skippedFileCount  |-> skippedCount,
      configWithoutRoms |-> sortAlphabetical(configWithoutRoms),
      romsWithoutConfig |-> sortAlphabetical(romsWithoutConfig),
      newFiles          |-> created,
      skippedTag        |-> [t \in MatchFlags |-> skipped(t, matchFlag)] ]

\* The created files of all three match types.
allCreatedFiles(matches, configFiles, romSet) ==
    [ exact     |-> createdFiles(matches, configFiles, romSet, MatchTypeExact),
      alternate |-> createdFiles(matches, configFiles, romSet, MatchTypeAlternate),
      fuzzy     |-> createdFiles(matches, configFiles, romSet, MatchTypeFuzzy) ]

\* The config files (configSide) or the ROMs of the none matches.
withoutMatch(matches, files, configSide) ==
    LET Keep(m) == /\ m.matchType = MatchTypeNone
                   /\ (m.configFile # Nil) = configSide
        none == SelectSeq(matches, Keep)
    IN  [i \in 1..Len(none) |->
            files[IF configSide THEN none[i].configFile ELSE none[i].rom].FileName]

\* The counting of produceLog, given the created files.
logOfCreated(commitFlag, romCount, configCount, matches, configFiles, romSet, created, matchFlag) ==
    logText(commitFlag, romCount, configCount,
            withoutMatch(matches, configFiles, TRUE),
            withoutMatch(matches, romSet, FALSE),
            created, skippedFileCount(created, matchFlag), matchFlag)

\* produceLog
produceLog(commitFlag, romCount, configCount, matches, configFiles, romSet, matchFlag) ==
    logOfCreated(commitFlag, romCount, configCount, matches, configFiles, romSet,
                 allCreatedFiles(matches, configFiles, romSet), matchFlag)

----------------------------------------------------------------------------
(* The bounds of the model and the directories it starts from.             *)

\* The most names the config directory and the ROM directory hold at first.
MaxConfigs == 2
MaxRoms    == 2

\* What the config directory may hold at first: config files that match the
\* ROMs exactly, by an alternate name or fuzzily, and a file that is no
\* config file.
ConfigUniverse == { CfgCommaThe, CfgTheU, CfgLowerUSA, CfgApos, NotCfg }

\* What the ROM directory may hold: the same ROM under two extensions,
\* another spelling of its name, and a ROM no config file matches.
RomUniverse == { RomN64, RomZ64, RomApos, RomOther }

\* The listings of at most n distinct names of U, in every order (the order
\* of a listing is the file manager's).
RECURSIVE Listings(_, _)
Listings(U, n) ==
    IF n = 0 THEN { << >> }
    ELSE LET shorter == Listings(U, n - 1)
         IN  shorter \cup
             { Append(p[1], p[2]) :
                 p \in { q \in shorter \X U : ~containsItem(q[1], q[2]) } }

ConfigListings == Listings(ConfigUniverse, MaxConfigs)
RomListings    == Listings(RomUniverse, MaxRoms)

\* The same for the runs that are followed by a second run.
MaxRetryConfigs == 1
MaxRetryRoms    == 2

RetryConfigListings == Listings(ConfigUniverse, MaxRetryConfigs)
RetryRomListings    == Listings(RomUniverse, MaxRetryRoms)

\* The outcomes of files.FileManager.CopyFileWithName: the copy is made; it
\* fails before the new file exists (os.Open or os.Create fails); it fails
\* after os.Create made the new file (io.Copy fails).
CopyOutcomes == { "copied", "failed", "partial" }

Digits == << "1", "2" >>

----------------------------------------------------------------------------
(* The program state.                                                      *)

VARIABLES
    nargs,          \* len(flag.Args())
    commit,         \* --commit
    exactOnly,      \* --exact-only
    fuzzyMatching,  \* --fuzzy
    configDir,      \* the names in the config directory, as they are listed
    romDir,         \* the names in the ROM directory, as they are listed
    run,            \* 1 for the first run of the program, 2 for the second
    pc,             \* where main and PatchDirectory stand
    configDirFiles, \* PatchDirectory's listing of the config directory
    configFiles,    \* PatchDirectory's configFiles
    roms,           \* PatchDirectory's roms
    matches,        \* PatchDirectory's matches
    idx,            \* the position of "for _, match := range matches"
    existsChecks,   \* the names FileExists was asked for, in order
    copies,         \* the calls of CopyFileWithName, in order
    log,            \* << >>, or the one log produceLog assembled
    err,            \* PatchDirectory returned an error
    exitCode,       \* -1 while the process runs, then its exit code
    startDir,       \* the config directory when the run began
    prev            \* << >>, or what the first run left behind

vars ==
    << nargs, commit, exactOnly, fuzzyMatching, configDir, romDir, run, pc,
       configDirFiles, configFiles, roms, matches, idx, existsChecks, copies,
       log, err, exitCode, startDir, prev >>

flags  == << nargs, exactOnly, fuzzyMatching >>
locals == << configDirFiles, configFiles, roms, matches, idx >>

\* main's matchFlag.
matchFlag ==
    IF exactOnly THEN MatchTypeExact
    ELSE IF fuzzyMatching THEN MatchTypeFuzzy
    ELSE MatchTypeAlternate

\* writeLogToFile's logName; the run's number stands for time.Now().Unix().
logName == LogPrefix \o << Digits[run] >> \o LogSuffix

\* A slip in FileExists: the name is never found.
FileExistsNever(dir, fileName) == FALSE

\* FileExists, over the names of the directory.
FileExists(dir, fileName) == containsItem(dir, fileName)

\* The state a run of the program begins in.
Init ==
    /\ nargs \in 1..3
    /\ commit \in BOOLEAN
    /\ exactOnly \in BOOLEAN
    /\ fuzzyMatching \in BOOLEAN
    /\ configDir \in ConfigListings
    /\ romDir \in RomListings
    \* a run that main ends before any listing is taken from empty
    \* directories only: it never looks at them
    /\ (nargs # 2 \/ (exactOnly /\ fuzzyMatching))
           => (configDir = << >> /\ romDir = << >> /\ ~commit)
    /\ run = 1
    /\ pc = "main"
    /\ configDirFiles = << >>
    /\ configFiles = << >>
    /\ roms = << >>
    /\ matches = << >>
    /\ idx = 0
    /\ existsChecks = << >>
    /\ copies = << >>
    /\ log = << >>
    /\ err = FALSE
    /\ exitCode = -1
    /\ startDir = configDir
    /\ prev = << >>

----------------------------------------------------------------------------
(* main                                                                    *)

\* main returns when it is not given two arguments.
MainUsage ==
    /\ pc = "main"
    /\ nargs # 2
    /\ pc' = "exited"
    /\ exitCode' = 0
    /\ UNCHANGED << flags, commit, configDir, romDir, run, locals,
                    existsChecks, copies, log, err, startDir, prev >>

\* main returns when --exact-only and --fuzzy are both given.
MainRejectFlags ==
    /\ pc = "main"
    /\ nargs = 2
    /\ exactOnly /\ fuzzyMatching
    /\ pc' = "exited"
    /\ exitCode' = 0
    /\ UNCHANGED << flags, commit, configDir, romDir, run, locals,
                    existsChecks, copies, log, err, startDir, prev >>

mainCallsPatchDirectory ==
    /\ pc = "main"
    /\ nargs = 2
    /\ ~(exactOnly /\ fuzzyMatching)

\* A slip in main: the error is formatted and main returns as usual.
exitCodeAlwaysZero(error) == 0

\* The exit code main ends with once PatchDirectory has returned.
exitCodeOf(error) == IF error THEN 1 ELSE 0

\* main after PatchDirectory: os.Exit(1) on an error, else it returns.
MainExit ==
    /\ pc = "returned"
    /\ pc' = "exited"
    /\ exitCode' = exitCodeOf(err)
    /\ UNCHANGED << flags, commit, configDir, romDir, run, locals,
                    existsChecks, copies, log, err, startDir, prev >>

----------------------------------------------------------------------------
(* PatchDirectory                                                          *)

\* GetDirectoryContents(configDirPath) succeeds.
ListConfigDir ==
    /\ mainCallsPatchDirectory
    /\ configDirFiles' = configDir
    /\ pc' = "listRoms"
    /\ UNCHANGED << flags, commit, configDir, romDir, run, configFiles, roms,
                    matches, idx, existsChecks, copies, log, err, exitCode,
                    startDir, prev >>

\* GetDirectoryContents(configDirPath) fails: PatchDirectory returns the error.
ListConfigDirFails ==
    /\ mainCallsPatchDirectory
    /\ err' = TRUE
    /\ pc' = "returned"
    /\ UNCHANGED << flags, commit, configDir, romDir, run, locals,
                    existsChecks, copies, log, exitCode, startDir, prev >>

\* GetDirectoryContents(romDirPath) succeeds; PatchDirectory filters the
\* config files, builds the Roms and matches them.
ListRomDir ==
    /\ pc = "listRoms"
    /\ configFiles' = newRoms(filterConfigFiles(configDirFiles))
    /\ roms' = newRoms(romDir)
    /\ matches' = matchRomSets(configFiles', roms')
    /\ idx' = 1
    /\ pc' = "loop"
    /\ UNCHANGED << flags, commit, configDir, romDir, run, configDirFiles,
                    existsChecks, copies, log, err, exitCode, startDir, prev >>

\* GetDirectoryContents(romDirPath) fails: PatchDirectory returns the error.
ListRomDirFails ==
    /\ pc = "listRoms"
    /\ err' = TRUE
    /\ pc' = "returned"
    /\ UNCHANGED << flags, commit, configDir, romDir, run, locals,
                    existsChecks, copies, log, exitCode, startDir, prev >>

inLoop == pc = "loop" /\ idx <= Len(matches)

\* A slip in the loop: once a copy has failed, the matches that follow are
\* passed over.
needsFileUntilFailure(m, flag) ==
    /\ m.matchType # MatchTypeNone
    /\ ~m.isExisting
    /\ shouldInclude(m.matchType, flag)
    /\ \A c \in 1..Len(copies) : copies[c].outcome = "copied"

\* The condition under which the loop looks at the file system for match m.
needsFile(m, flag) ==
    /\ m.matchType # MatchTypeNone
    /\ ~m.isExisting
    /\ shouldInclude(m.matchType, flag)

\* The name of the file a match asks for.
targetOf(m) == ConfigName(roms[m.rom])

\* A match the loop passes over: a none match, an existing one, or one the
\* match flag leaves out.
SkipMatch ==
    /\ inLoop
    /\ ~needsFile(matches[idx], matchFlag)
    /\ idx' = idx + 1
    /\ UNCHANGED << flags, commit, configDir, romDir, run, pc, configDirFiles,
                    configFiles, roms, matches, existsChecks, copies, log,
                    err, exitCode, startDir, prev >>

\* FileExists finds the new name: the match is marked existing.
MarkExisting ==
    /\ inLoop
    /\ needsFile(matches[idx], matchFlag)
    /\ FileExists(configDir, targetOf(matches[idx]))
    /\ existsChecks' = Append(existsChecks, targetOf(matches[idx]))
    /\ matches' = [matches EXCEPT ![idx].isExisting = TRUE]
    /\ idx' = idx + 1
    /\ UNCHANGED << flags, commit, configDir, romDir, run, pc, configDirFiles,
                    configFiles, roms, copies, log, err, exitCode, startDir,
                    prev >>

\* A slip in the loop: the copy is made whether --commit was given or not.
copiesFileAlways(commitFlag) == TRUE

\* Whether the loop calls CopyFileWithName once FileExists has said no.
copiesFile(commitFlag) == commitFlag

\* FileExists does not find the new name and --commit was not given.
DryRunMatch ==
    /\ inLoop
    /\ needsFile(matches[idx], matchFlag)
    /\ ~FileExists(configDir, targetOf(matches[idx]))
    /\ ~copiesFile(commit)
    /\ existsChecks' = Append(existsChecks, targetOf(matches[idx]))
    /\ idx' = idx + 1
    /\ UNCHANGED << flags, commit, configDir, romDir, run, pc, configDirFiles,
                    configFiles, roms, matches, copies, log, err, exitCode,
                    startDir, prev >>

\* A slip in CopyFileWithName: the new file is never written.
afterCopyNothingWritten(dir, newName, outcome) == dir

\* The config directory after CopyFileWithName(dir, fileName, newName).
afterCopy(dir, newName, outcome) ==
    IF outcome = "failed" \/ containsItem(dir, newName)
    THEN dir
    ELSE Append(dir, newName)

\* FileExists does not find the new name and --commit was given:
\* CopyFileWithName is called; its error is dropped.
CopyFile ==
    /\ inLoop
    /\ needsFile(matches[idx], matchFlag)
    /\ ~FileExists(configDir, targetOf(matches[idx]))
    /\ copiesFile(commit)
    /\ \E outcome \in CopyOutcomes :
         /\ copies' = Append(copies,
                [ fileName |-> configFiles[matches[idx].configFile].FileName,
                  newName  |-> targetOf(matches[idx]),
                  match    |-> idx,
                  outcome  |-> outcome,
                  present  |-> containsItem(configDir, targetOf(matches[idx])),
                  check    |-> Len(existsChecks) + 1 ])
         /\ configDir' = afterCopy(configDir, targetOf(matches[idx]), outcome)
    /\ existsChecks' = Append(existsChecks, targetOf(matches[idx]))
    /\ idx' = idx + 1
    /\ UNCHANGED << flags, commit, romDir, run, pc, configDirFiles,
                    configFiles, roms, matches, log, err, exitCode, startDir,
                    prev >>

\* After the loop: produceLog assembles the log and writeLogToFile writes it
\* into the config directory; a failure to write is swallowed.  Then
\* PatchDirectory returns nil.
ProduceLog ==
    /\ pc = "loop"
    /\ idx > Len(matches)
    /\ log' = << produceLog(commit, Len(roms), Len(configFiles), matches,
                            configFiles, roms, matchFlag) >>
    /\ \E written \in BOOLEAN :
         configDir' = IF written /\ ~containsItem(configDir, logName)
                      THEN Append(configDir, logName)
                      ELSE configDir
    /\ pc' = "returned"
    /\ UNCHANGED << flags, commit, romDir, run, locals, existsChecks, copies,
                    err, exitCode, startDir, prev >>

----------------------------------------------------------------------------
(* A second run of the program on the directories the first one left, with *)
(* the same match flags, after a first run in which nothing failed.        *)

Rerun ==
    /\ pc = "exited"
    /\ prev = << >>
    /\ log # << >>
    /\ \A c \in 1..Len(copies) : copies[c].outcome = "copied"
    /\ prev' = << [ commit    |-> commit,
                    err       |-> err,
                    log       |-> log,
                    copies    |-> copies,
                    startDir  |-> startDir,
                    endDir    |-> configDir ] >>
    /\ commit' \in BOOLEAN
    /\ run' = 2
    /\ pc' = "main"
    /\ configDirFiles' = << >>
    /\ configFiles' = << >>
    /\ roms' = << >>
    /\ matches' = << >>
    /\ idx' = 0
    /\ existsChecks' = << >>
    /\ copies' = << >>
    /\ log' = << >>
    /\ err' = FALSE
    /\ exitCode' = -1
    /\ startDir' = configDir
    /\ UNCHANGED << flags, configDir, romDir >>

----------------------------------------------------------------------------
(* The specifications: one run of the program, and a run with a second one *)
(* after it.                                                               *)

Run ==
    \/ MainUsage
    \/ MainRejectFlags
    \/ ListConfigDir
    \/ ListConfigDirFails
    \/ ListRomDir
    \/ ListRomDirFails
    \/ SkipMatch
    \/ MarkExisting
    \/ DryRunMatch
    \/ CopyFile
    \/ ProduceLog
    \/ MainExit

Next == Run

Spec == Init /\ [][Next]_vars

NextRetry == Run \/ Rerun

\* The first run of the two starts from smaller directories.
InitRetry ==
    /\ Init
    /\ configDir \in RetryConfigListings
    /\ romDir \in RetryRomListings

SpecRetry == InitRetry /\ [][NextRetry]_vars

----------------------------------------------------------------------------
(* Runs over a ROM directory of one file whose name is put together from   *)
(* the pieces rom.go looks for: PatchDirectory builds the Rom of the name.  *)

\* The most pieces a name is made of.
MaxTokens == 3

\* A leading "The", two words (one with an apostrophe), a trailing ", The",
\* the separator of a suffix, the three markers of getBaseName and a space.
NameTokens ==
    { << "T","h","e"," " >>, << "a" >>, << "b","'" >>,
      << ","," ","T","h","e" >>, << " ","-"," " >>,
      << "." >>, << "[" >>, << "(" >>, << " " >> }

\* The names of 1..n pieces.
RECURSIVE TokenNames(_)
TokenNames(n) ==
    IF n = 1 THEN NameTokens
    ELSE TokenNames(n - 1)
         \cup { p[1] \o p[2] : p \in TokenNames(n - 1) \X NameTokens }

FileNames == TokenNames(MaxTokens)

\* A dry run with the default flags on an empty config directory and a ROM
\* directory that holds one file of any of these names.
InitNames ==
    /\ nargs = 2
    /\ commit = FALSE
    /\ exactOnly = FALSE
    /\ fuzzyMatching = FALSE
    /\ configDir = << >>
    /\ romDir \in { << fileName >> : fileName \in FileNames }
    /\ run = 1
    /\ pc = "main"
    /\ configDirFiles = << >>
    /\ configFiles = << >>
    /\ roms = << >>
    /\ matches = << >>
    /\ idx = 0
    /\ existsChecks = << >>
    /\ copies = << >>
    /\ log = << >>
    /\ err = FALSE
    /\ exitCode = -1
    /\ startDir = configDir
    /\ prev = << >>

NextNames ==
    \/ ListConfigDir
    \/ ListRomDir
    \/ SkipMatch
    \/ ProduceLog
    \/ MainExit

SpecNames == InitNames /\ [][NextNames]_vars

----------------------------------------------------------------------------
(* Properties of the program.                                              *)

SetOf(seq) == { seq[i] : i \in 1..Len(seq) }

\* The .cfg names among the names of a directory.
CfgNames(dir) == { f \in SetOf(dir) : Ext(f) = CfgExt }

\* The order of the tiers: exact < alternate < fuzzy.
TierRank(t) ==
    CASE t = MatchTypeExact     -> 1
      [] t = MatchTypeAlternate -> 2
      [] t = MatchTypeFuzzy     -> 3
      [] OTHER                  -> 4

\* PatchDirectory has gone through its loop and produced the log.
Patched == log # << >>

\* The first rule of matchRomSets that applies to a config file and a ROM.
FirstRule(c, r) ==
    IF c.Name = r.Name THEN MatchTypeExact
    ELSE IF c.Name \in SetOf(r.AlternateNames) THEN MatchTypeAlternate
    ELSE IF SetOf(c.AlternateNames) \cap SetOf(r.AlternateNames) # {}
         THEN MatchTypeFuzzy
    ELSE MatchTypeNone

\* The positions in matches of the matches of config file ci with ROM ri.
MatchesOfPair(ci, ri) ==
    { m \in 1..Len(matches) : matches[m].configFile = ci /\ matches[m].rom = ri }

\* The positions in matches of the matches that hold a config file and a ROM.
PairMatches == { m \in 1..Len(matches) : matches[m].matchType # MatchTypeNone }

\* C1 (as claimed): in a dry run PatchDirectory never calls CopyFileWithName
\* and the config directory holds the same set of names after the run as
\* before it.
C1_DryRunLeavesDirectory ==
    ~commit => /\ copies = << >>
               /\ SetOf(configDir) = SetOf(startDir)

\* C1 (amended): in a dry run PatchDirectory never calls CopyFileWithName; the
\* one name the run can add to the config directory is that of its log file,
\* so that the other names, and with them the .cfg names, are those from
\* before the run.
C1_DryRunAddsOnlyLog ==
    ~commit => /\ copies = << >>
               /\ SetOf(startDir) \subseteq SetOf(configDir)
               /\ SetOf(configDir) \subseteq SetOf(startDir) \cup { logName }
               /\ CfgNames(configDir) = CfgNames(startDir)

\* A dry run that found a new file to make has ended, its log written.
C1_Witness ==
    /\ ~commit
    /\ pc = "exited"
    /\ existsChecks # << >>
    /\ logName \in SetOf(configDir)
    /\ logName \notin SetOf(startDir)

\* C2: shouldInclude(tier, requested) is true exactly when tier is not none
\* and tier <= requested in the order exact < alternate < fuzzy, and every
\* call of CopyFileWithName is for a match that is not a none match and whose
\* tier is not above the requested one.
C2_CopyOnlyEligible ==
    /\ \A t \in MatchTypes, f \in MatchFlags :
         shouldInclude(t, f) <=> (t # MatchTypeNone /\ TierRank(t) <= TierRank(f))
    /\ \A c \in 1..Len(copies) :
         /\ matches[copies[c].match].matchType # MatchTypeNone
         /\ TierRank(matches[copies[c].match].matchType) <= TierRank(matchFlag)

\* A commit run has copied for one match and left out another match, of a
\* tier above the requested one.
C2_Witness ==
    /\ commit
    /\ pc = "exited"
    /\ copies # << >>
    /\ \E m \in PairMatches :
         /\ ~matches[m].isExisting
         /\ TierRank(matches[m].matchType) > TierRank(matchFlag)

\* C3: for every config file and every ROM, matchRomSets records at most one
\* match, and its tier is that of the first rule that applies to the pair:
\* exact, else alternate, else fuzzy; a pair no rule applies to has no match.
C3_FirstRulePerPair ==
    \A ci \in 1..Len(configFiles), ri \in 1..Len(roms) :
        IF FirstRule(configFiles[ci], roms[ri]) = MatchTypeNone
        THEN MatchesOfPair(ci, ri) = {}
        ELSE /\ Cardinality(MatchesOfPair(ci, ri)) = 1
             /\ \A m \in MatchesOfPair(ci, ri) :
                  matches[m].matchType = FirstRule(configFiles[ci], roms[ri])

\* matchRomSets has returned matches of all three tiers, for pairs a lower
\* rule applies to as well.
C3_Witness ==
    /\ pc = "loop"
    /\ \A t \in MatchFlags : \E m \in PairMatches : matches[m].matchType = t
    /\ \E m \in PairMatches :
         /\ matches[m].matchType = MatchTypeExact
         /\ configFiles[matches[m].configFile].Name
              \in SetOf(roms[matches[m].rom].AlternateNames)

\* C4 (as claimed): matchRomSets never returns, for one config file, a match
\* of one tier with one ROM and a match of a lower tier with another ROM.
C4_OneTierPerConfig ==
    \A m1 \in PairMatches, m2 \in PairMatches :
        matches[m1].configFile = matches[m2].configFile
            => matches[m1].matchType = matches[m2].matchType

\* C4 (amended): the first rule that fires wins for the config file and the
\* ROM at hand, and matchRomSets goes on with the next ROM of the same config
\* file: the matches stand in the order of the config files and, for one
\* config file, of the ROMs, with never two matches of one config file with
\* one ROM; one config file can hold matches of different tiers with
\* different ROMs.
C4_OneMatchPerPairInOrder ==
    \A m1 \in PairMatches, m2 \in PairMatches :
        m1 < m2 =>
            \/ matches[m1].configFile < matches[m2].configFile
            \/ /\ matches[m1].configFile = matches[m2].configFile
               /\ matches[m1].rom < matches[m2].rom

\* One config file matches one ROM exactly and another ROM by a lower rule.
C4_Witness ==
    /\ pc = "loop"
    /\ \E m1 \in PairMatches, m2 \in PairMatches :
         /\ matches[m1].configFile = matches[m2].configFile
         /\ matches[m1].matchType = MatchTypeExact
         /\ matches[m2].matchType # MatchTypeExact

\* C5: an exact match whose config file name equals the ROM's config name
\* when both are lower-cased is marked isExisting, and CopyFileWithName is
\* never called for a match marked isExisting.
C5_ExistingNeverCopied ==
    /\ \A m \in PairMatches :
         ( /\ matches[m].matchType = MatchTypeExact
           /\ ToLower(configFiles[matches[m].configFile].FileName)
                = ToLower(ConfigName(roms[matches[m].rom])) )
         => matches[m].isExisting
    /\ \A c \in 1..Len(copies) : ~matches[copies[c].match].isExisting

\* A commit run has ended in which a config file was the ROM's config name
\* but for the case of its letters.
C5_Witness ==
    /\ commit
    /\ pc = "exited"
    /\ \E m \in PairMatches :
         /\ matches[m].matchType = MatchTypeExact
         /\ matches[m].isExisting
         /\ configFiles[matches[m].configFile].FileName
              # ConfigName(roms[matches[m].rom])
         /\ ToLower(configFiles[matches[m].configFile].FileName)
              = ToLower(ConfigName(roms[matches[m].rom]))

\* The matches the loop has dealt with that the match flag includes.
HandledEligible ==
    { m \in PairMatches : m < idx /\ shouldInclude(matches[m].matchType, matchFlag) }

\* The copies made for match m.
CopiesOf(m) == { c \in 1..Len(copies) : copies[c].match = m }

\* What C6 says of every copy and of every match whose new name is found.
C6_CheckedBeforeCopy ==
    /\ \A c \in 1..Len(copies) :
         /\ existsChecks[copies[c].check] = copies[c].newName
         /\ ~copies[c].present
    /\ \A m \in HandledEligible :
         /\ Cardinality(CopiesOf(m)) <= 1
         /\ matches[m].isExisting <=> CopiesOf(m) = {}

\* C6 (as claimed): in a commit run FileExists is asked for the new name
\* before every copy, no copy is made under a name the config directory holds
\* at that moment, a match whose new name is found is marked existing and
\* skipped, and at most one copy is made per new name in one run.
C6_OneCopyPerTarget ==
    commit =>
        /\ C6_CheckedBeforeCopy
        /\ \A c1 \in 1..Len(copies), c2 \in 1..Len(copies) :
             copies[c1].newName = copies[c2].newName => c1 = c2

\* C6 (amended): in a commit run FileExists is asked for the new name before
\* every copy, no copy is made under a name the config directory holds at
\* that moment, a match whose new name is found is marked existing and
\* skipped, and a second copy under one new name is made only when every
\* earlier copy under that name failed before the file was made: at most one
\* copy per new name leaves a file.
C6_OneCopyPerTargetMade ==
    commit =>
        /\ C6_CheckedBeforeCopy
        /\ \A c1 \in 1..Len(copies), c2 \in 1..Len(copies) :
             (c1 < c2 /\ copies[c1].newName = copies[c2].newName)
                 => copies[c1].outcome = "failed"

\* In a commit run a later match has found the file an earlier match of the
\* same run had copied, and was marked existing.
C6_Witness ==
    /\ commit
    /\ pc = "exited"
    /\ \E c \in 1..Len(copies), m \in PairMatches :
         /\ copies[c].match < m
         /\ copies[c].outcome # "failed"
         /\ copies[c].newName = targetOf(matches[m])
         /\ copies[c].newName \notin SetOf(startDir)
         /\ matches[m].isExisting
         /\ CopiesOf(m) = {}

\* The directories of C7: "New Tetris, The (USA).cfg" and
\* "The New Tetris (USA).n64".
C7_Scenario ==
    /\ run = 1
    /\ startDir = << CfgCommaThe >>
    /\ romDir = << RomN64 >>
    /\ Patched

\* C7 (as claimed): with these directories and --exact-only the pair is an
\* exact match and a commit run makes "The New Tetris (USA).cfg".
C7_CommaFormIsExact ==
    (C7_Scenario /\ exactOnly) =>
        /\ Len(matches) = 1
        /\ matches[1].matchType = MatchTypeExact
        /\ (commit /\ \A c \in 1..Len(copies) : copies[c].outcome = "copied")
               => TargetUSA \in SetOf(configDir)

\* C7 (amended): with these directories the pair is an alternate match (the
\* base names differ, the config file's is an alternate name of the ROM).
\* With --exact-only the match is left out: no copy is made, no file
\* "The New Tetris (USA).cfg" appears and the log counts it as skipped.  With
\* the requested tier alternate or fuzzy a commit run makes one copy, of
\* "New Tetris, The (USA).cfg" under the name "The New Tetris (USA).cfg".
C7_CommaFormIsAlternate ==
    C7_Scenario =>
        /\ matches = << [ configFile |-> 1, rom |-> 1,
                          matchType |-> MatchTypeAlternate,
                          isExisting |-> FALSE ] >>
        /\ exactOnly =>
             /\ copies = << >>
             /\ TargetUSA \notin SetOf(configDir)
             /\ log[1].createdFilesCount = 0
             /\ log[1].skippedFileCount = 1
        /\ (~exactOnly /\ commit) =>
             /\ Len(copies) = 1
             /\ copies[1].fileName = CfgCommaThe
             /\ copies[1].newName = TargetUSA
             /\ (copies[1].outcome # "failed") <=> (TargetUSA \in SetOf(configDir))
             /\ log[1].createdFilesCount = 1
             /\ log[1].skippedFileCount = 0

\* The commit run with --exact-only on these directories has ended.
C7_Witness ==
    /\ C7_Scenario
    /\ exactOnly
    /\ commit
    /\ pc = "exited"

\* The second of two commit runs (the first one's copies all succeeded).
SecondCommitRun ==
    /\ run = 2
    /\ prev[1].commit
    /\ commit

\* C8 (as claimed): a second commit run on the directories a first commit
\* run left, with the same requested tier, makes no copy and leaves the set
\* of .cfg names as it was.
C8_SecondRunCopiesNothing ==
    SecondCommitRun =>
        /\ copies = << >>
        /\ CfgNames(configDir) = CfgNames(startDir)

\* C8 (amended): a second commit run on the directories a first commit run
\* left, with the same requested tier, makes no copy of a config file that
\* was there before the first run: every match of such a file finds its new
\* name or is left out as in the first run.  It can copy a file the first
\* run made, for a ROM that this file matches within the requested tier and
\* the file it was copied from does not, and the set of .cfg names grows
\* then.
C8_SecondRunCopiesNoOldFile ==
    SecondCommitRun =>
        \A c \in 1..Len(copies) : copies[c].fileName \notin SetOf(prev[1].startDir)

\* The second commit run has ended; the first had made a copy, and in the
\* second a match of an old config file found its new name.
C8_Witness ==
    /\ SecondCommitRun
    /\ pc = "exited"
    /\ prev[1].copies # << >>
    /\ \E m \in PairMatches :
         /\ configFiles[matches[m].configFile].FileName \in SetOf(prev[1].startDir)
         /\ targetOf(matches[m]) \in SetOf(existsChecks)
         /\ targetOf(matches[m]) \notin SetOf(prev[1].startDir)
         /\ matches[m].isExisting

\* C9: when a listing fails PatchDirectory returns the error at once: no
\* copy, no existence check, no match and no log before it returns, the
\* config directory as it was, and main exits with a code that is not zero.
C9_ListingErrorAborts ==
    err => /\ pc \in { "returned", "exited" }
           /\ copies = << >>
           /\ existsChecks = << >>
           /\ matches = << >>
           /\ log = << >>
           /\ configDir = startDir
           /\ pc = "exited" => exitCode # 0

\* A commit run on directories that hold files has ended on a listing error.
C9_Witness ==
    /\ err
    /\ pc = "exited"
    /\ commit
    /\ configDir # << >>
    /\ romDir # << >>

\* C10: the log of a dry run and the log of a commit run on the same
\* directories with the same requested tier are the same but for the dry-run
\* marker: the same new files, the same created and skipped counts.
C10_DryLogIsCommitLog ==
    ( /\ run = 2
      /\ ~prev[1].commit
      /\ commit
      /\ Patched )
    => [log[1] EXCEPT !.dry = TRUE] = prev[1].log[1]

----------------------------------------------------------------------------
(* Properties of rom.go, over the Roms PatchDirectory has built.           *)

\* The Roms built so far, of config files and of ROMs.
BuiltRoms == SetOf(configFiles) \cup SetOf(roms)

\* C11: the Rom NewRom builds for a file name has its base name among its
\* alternate names, and no string is twice among its alternate names.
C11_BaseNameIsAlternate ==
    \A r \in BuiltRoms :
        /\ containsItem(r.AlternateNames, r.Name)
        /\ Cardinality(SetOf(r.AlternateNames)) = Len(r.AlternateNames)

\* A Rom has been built whose name starts with "the " and holds an
\* apostrophe: getAlternateNames comes upon its strings more than once.
C11_Witness ==
    \E r \in SetOf(roms) :
        /\ HasPrefix(r.Name, ThePrefix)
        /\ Contains(r.Name, << "'" >>)
        /\ Len(r.AlternateNames) = 4

\* C12: for a base name n that starts with "the " and its comma-form c
\* (", the" appended to the first " - "-separated segment of the rest),
\* getAlternateNames(n) and getAlternateNames(c) are the same set.
C12_TheFormsAgree ==
    \A r \in SetOf(roms) :
        HasPrefix(r.Name, ThePrefix) =>
            SetOf(getAlternateNames(r.Name, TRUE))
                = SetOf(getAlternateNames(correctedName(r.Name), TRUE))

\* Whether getAlternateNames moves the "the" of this name.
HasThe(name) == HasPrefix(name, ThePrefix) \/ Contains(name, CommaThe)

\* The name and, if it holds an apostrophe, the name without apostrophes.
WithStripped(name) ==
    { name } \cup (IF Contains(name, << "'" >>) THEN { RemoveAll(name, "'") } ELSE {})

\* C13: the alternate names of a base name b are exactly b, the variant of b
\* with its "the" moved when b starts with "the " or holds ", the", and the
\* apostrophe-stripped version of each of the two that holds an apostrophe;
\* every alternate name with an apostrophe has its stripped version there.
C13_AlternatesAreExactly ==
    \A r \in SetOf(roms) :
        /\ SetOf(r.AlternateNames)
              = WithStripped(r.Name)
                \cup (IF HasThe(r.Name) THEN WithStripped(correctedName(r.Name)) ELSE {})
        /\ \A a \in SetOf(r.AlternateNames) :
              WithStripped(a) \subseteq SetOf(r.AlternateNames)

\* C13 (amended): the alternate names of a base name b are exactly b; when b
\* starts with "the " or holds ", the", the variant r of b with its "the"
\* moved and the variant of r with its "the" moved (b again, unless b holds
\* a second "the"); and the apostrophe-stripped versions of b and of r when
\* they hold an apostrophe.
C13_AlternatesWithSecondMove ==
    \A r \in SetOf(roms) :
        SetOf(r.AlternateNames)
          = WithStripped(r.Name)
            \cup (IF HasThe(r.Name)
                  THEN WithStripped(correctedName(r.Name))
                       \cup { correctedName(correctedName(r.Name)) }
                  ELSE {})

\* A Rom has been built whose "the" moves twice without coming back to the
\* base name, and the name holds an apostrophe.
C13_Witness ==
    \E r \in SetOf(roms) :
        /\ HasThe(r.Name)
        /\ correctedName(correctedName(r.Name)) # r.Name
        /\ Contains(r.Name, << "'" >>)

\* The markers getBaseName cuts a file name at.
Markers == { << "." >>, << "[" >>, << "(" >> }

\* The first occurrences of the markers that are past position 0.
CutPoints(fileName) ==
    { i \in { Index(fileName, m) : m \in Markers } : i > 0 }

\* The file name up to the first of these, the whole name if there is none.
Truncated(fileName) ==
    IF CutPoints(fileName) = {} THEN fileName
    ELSE SubSeq(fileName, 1,
                CHOOSE i \in CutPoints(fileName) : \A j \in CutPoints(fileName) : i <= j)

\* C14: getBaseName(f) is the lowercased, trimmed prefix of f that ends just
\* before the first occurrence of ".", "[" or "(" found past position 0,
\* whichever of the three comes first in f, and all of f, trimmed and
\* lowercased, when there is none; a marker f begins with does not cut f
\* at 0, and the base name of such an f is never empty.
C14_BaseNameIsTruncatedPrefix ==
    \A r \in SetOf(roms) :
        /\ r.Name = ToLower(TrimSpace(Truncated(r.FileName)))
        /\ << Head(r.FileName) >> \in Markers => r.Name # << >>

\* A Rom has been built of a file name that begins with a marker and is cut
\* at a later one.
C14_Witness ==
    \E r \in SetOf(roms) :
        /\ << Head(r.FileName) >> \in Markers
        /\ CutPoints(r.FileName) # {}
        /\ r.Name # << >>

----------------------------------------------------------------------------
(* Properties of matchRomSets' none matches, of failed copies, of the      *)
(* created count and of the order of the copies.                           *)

\* matchRomSets has returned.
Matched == pc = "loop" \/ (pc \in { "returned", "exited" } /\ ~err)

\* The positions of the none matches that hold config file ci, ROM ri.
NoneOfConfig(ci) ==
    { m \in 1..Len(matches) :
        matches[m].matchType = MatchTypeNone /\ matches[m].configFile = ci }

NoneOfRom(ri) ==
    { m \in 1..Len(matches) :
        matches[m].matchType = MatchTypeNone /\ matches[m].rom = ri }

\* C15: matchRomSets' result holds exactly one none match, with the config
\* file alone, for every config file that matches no ROM, exactly one none
\* match, with the ROM alone, for every ROM no config file matches, no none
\* match for a config file or ROM that has a match, and both a config file
\* and a ROM in every match that is not a none match.
C15_NoneRecords ==
    Matched =>
        /\ \A ci \in 1..Len(configFiles) :
              IF \A ri \in 1..Len(roms) :
                     FirstRule(configFiles[ci], roms[ri]) = MatchTypeNone
              THEN Cardinality(NoneOfConfig(ci)) = 1
              ELSE NoneOfConfig(ci) = {}
        /\ \A ri \in 1..Len(roms) :
              IF \A ci \in 1..Len(configFiles) :
                     FirstRule(configFiles[ci], roms[ri]) = MatchTypeNone
              THEN Cardinality(NoneOfRom(ri)) = 1
              ELSE NoneOfRom(ri) = {}
        /\ \A m \in 1..Len(matches) :
              IF matches[m].matchType = MatchTypeNone
              THEN (matches[m].configFile = Nil) # (matches[m].rom = Nil)
              ELSE matches[m].configFile # Nil /\ matches[m].rom # Nil

\* matchRomSets has returned a match, a none match of a config file and a
\* none match of a ROM, or a match and a none match of a ROM beside it.
C15_Witness ==
    /\ Matched
    /\ \E m \in 1..Len(matches) :
         matches[m].matchType = MatchTypeNone /\ matches[m].rom = Nil
    /\ \E m \in 1..Len(matches) :
         matches[m].matchType = MatchTypeNone /\ matches[m].configFile = Nil

\* The copies that returned an error.
FailedCopies == { c \in 1..Len(copies) : copies[c].outcome # "copied" }

\* Whether match m was an existing match when matchRomSets returned it.
ExistingWhenMatched(m) ==
    /\ matches[m].matchType = MatchTypeExact
    /\ exactIsExisting(configFiles[matches[m].configFile], roms[matches[m].rom])

\* C16: a CopyFileWithName that fails in a commit run does not end the run:
\* every later match that is included and not existing has FileExists asked
\* and, when the name is not found, its copy made; the log is assembled,
\* PatchDirectory returns no error and main ends with exit code 0.
C16_FailedCopyDoesNotAbort ==
    (commit /\ FailedCopies # {}) =>
        /\ ~err
        /\ \A m \in HandledEligible :
              ~ExistingWhenMatched(m) =>
                  (matches[m].isExisting \/ CopiesOf(m) # {})
        /\ Len(existsChecks)
              = Cardinality({ m \in HandledEligible : ~ExistingWhenMatched(m) })
        /\ pc \in { "returned", "exited" } =>
              /\ idx > Len(matches)
              /\ log # << >>
        /\ pc = "exited" => exitCode = 0

\* A commit run has ended in which a copy failed and a later match had its
\* copy made.
C16_Witness ==
    /\ commit
    /\ pc = "exited"
    /\ \E c \in FailedCopies :
         \E d \in 1..Len(copies) : d > c /\ copies[d].match > copies[c].match

\* The lines of the new files in the log, of all tiers.
LoggedLines ==
    SetOf(log[1].newFiles[MatchTypeExact])
    \cup SetOf(log[1].newFiles[MatchTypeAlternate])
    \cup SetOf(log[1].newFiles[MatchTypeFuzzy])

\* The line of match m in the log.
LineOf(m) ==
    createdLine(configFiles[matches[m].configFile], roms[matches[m].rom])

\* C17: in a commit run the number in "Created N new files" is the number of
\* calls of CopyFileWithName in the run: a match marked existing, by
\* matchRomSets or by FileExists, is in no list of new files, created or
\* skipped, and every match a copy was requested for is counted once.
C17_CreatedCountIsCopies ==
    (commit /\ Patched /\ run = 1) =>
        /\ log[1].createdFilesCount = Len(copies)
        /\ \A m \in PairMatches :
              matches[m].isExisting => LineOf(m) \notin LoggedLines
        /\ \A m \in PairMatches :
              /\ Cardinality(CopiesOf(m)) <= 1
              /\ CopiesOf(m) # {} =>
                    /\ skipped(matches[m].matchType, matchFlag) = ""
                    /\ Len(SelectSeq(log[1].newFiles[matches[m].matchType],
                                      LAMBDA l : l = LineOf(m))) = 1

\* A commit run has made a copy, found the new name of another match with
\* FileExists, and left a match out that the flag does not include.
C17_Witness ==
    /\ commit /\ Patched /\ run = 1
    /\ copies # << >>
    /\ \E m \in PairMatches :
         matches[m].isExisting /\ ~ExistingWhenMatched(m)
    /\ log[1].skippedFileCount > 0

\* The matches that can ask for new name t: included by the flag and not
\* existing when matched.
EligibleFor(t) ==
    { m \in PairMatches :
        /\ shouldInclude(matches[m].matchType, matchFlag)
        /\ ~ExistingWhenMatched(m)
        /\ targetOf(matches[m]) = t }

\* Match order: the order of the config listing, then of the ROM listing.
Before(m, n) ==
    \/ matches[m].configFile < matches[n].configFile
    \/ /\ matches[m].configFile = matches[n].configFile
       /\ matches[m].rom < matches[n].rom

\* The first match in match order that can ask for t.
FirstFor(t) ==
    CHOOSE m \in EligibleFor(t) : \A n \in EligibleFor(t) : n = m \/ Before(m, n)

\* The copies asked for new name t, in the order of the calls.
CopiesFor(t) == { c \in 1..Len(copies) : copies[c].newName = t }

\* Several config files have a match that can ask for new name t.
SeveralConfigs(t) ==
    Cardinality({ matches[m].configFile : m \in EligibleFor(t) }) > 1

\* C18 (as claimed): when several config files can ask for one new name, the
\* file made under that name is copied from the first match in match order
\* that can ask for it, whatever its tier, and every later match for that
\* name, an exact one too, is marked existing and skipped.
C18_FirstMatchSupplies ==
    (commit /\ Patched /\ run = 1) =>
        \A c \in 1..Len(copies) :
            (SeveralConfigs(copies[c].newName) /\ copies[c].outcome # "failed") =>
                /\ copies[c].match = FirstFor(copies[c].newName)
                /\ \A m \in EligibleFor(copies[c].newName) :
                      m # copies[c].match =>
                          matches[m].isExisting /\ CopiesOf(m) = {}

\* C18 (amended): when several config files can ask for one new name, the
\* first copy asked for that name is asked for by the first match in match
\* order that can ask for it, whatever its tier; once a copy has made the
\* file, every later match for the name, an exact one too, is marked
\* existing and skipped; the copies asked for the name before the one that
\* made the file failed without making it.
C18_FirstMatchAsksFirst ==
    (commit /\ Patched /\ run = 1) =>
        \A c \in 1..Len(copies) :
            LET t == copies[c].newName
            IN  SeveralConfigs(t) =>
                /\ (\A d \in CopiesFor(t) : c <= d) => copies[c].match = FirstFor(t)
                /\ copies[c].outcome # "failed" =>
                      /\ \A d \in CopiesFor(t) :
                            /\ d < c => copies[d].outcome = "failed"
                            /\ d <= c
                      /\ \A m \in EligibleFor(t) :
                            Before(copies[c].match, m) =>
                                matches[m].isExisting /\ CopiesOf(m) = {}

\* Two config files ask for one new name, the first with a fuzzy or an
\* alternate match and the second with an exact one; the copy was made from
\* the first and the exact match was marked existing.
C18_Witness ==
    /\ commit /\ Patched /\ run = 1
    /\ \E c \in 1..Len(copies) :
         /\ copies[c].outcome = "copied"
         /\ matches[copies[c].match].matchType # MatchTypeExact
         /\ \E m \in EligibleFor(copies[c].newName) :
              /\ matches[m].configFile > matches[copies[c].match].configFile
              /\ matches[m].matchType = MatchTypeExact
              /\ matches[m].isExisting

=============================================================================
